---- MODULE Spec2Model ----
(***************************************************************************)
(* A model of edges.py: helpers that look nodes of a dual graph up by a    *)
(* feature key, add and remove edges by feature, turn the edges of the     *)
(* graph into a table of centroid-to-centroid lines, resolve the shared    *)
(* boundary of every edge, and mark rows of such a table.                  *)
(*                                                                         *)
(* The graph is a networkx Graph: an insertion-ordered node dictionary, a  *)
(* data dictionary per node and an insertion-ordered adjacency dictionary  *)
(* per node.  A feature table (shapefile) and an edge table are sequences  *)
(* of rows.  Every call returns a value or raises; a call's outcome is a   *)
(* record [exc, val] with exc = "none" when it returned normally.          *)
(***************************************************************************)
EXTENDS Integers, Sequences, FiniteSets, TLC

VARIABLES graph, shp, g_shp, last

vars == <<graph, shp, g_shp, last>>

-----------------------------------------------------------------------------
(* Bounds of the model *)

\* nodes of the initial graph are 0 .. NumNodes-1
NumNodes == 2
\* key values (GEOID10) are 1 .. NumKeys
NumKeys == 2
\* AddEdgeByFeature is not taken once the graph has this many edges
MaxEdges == 2
\* a feature table has up to MaxRows rows
MaxRows == 2
\* a call marks up to MaxMarks pairs, with a value of 1 .. MaxVal
MaxMarks == 2
MaxVal == 2

\* the value find_node_by_key returns when no node matches
NotFound == -1

\* the attribute / column every function is called with (the default `key`)
Key == "GEOID10"

\* the coordinate reference system of the feature table
Crs == "EPSG:4326"

\* the columns of the feature table that `endpoints` may name
EndpointCols == {"GEOID10", "NAME"}

\* the columns a caller marks in
MarkCols == {"marked"}

Nodes == 0 .. (NumNodes - 1)
Keys == 1 .. NumKeys

\* The key values of the nodes.  The code only compares key values and uses
\* them as dictionary keys, so an assignment is given up to renaming: the first
\* node has key 1 and every node has an earlier node's key or the next new one.
KeyAssignments ==
    {attr \in [Nodes -> Keys] :
        \A n \in Nodes : \/ attr[n] = 1
                         \/ \E m \in 0 .. (n - 1) : attr[m] >= attr[n] - 1}

-----------------------------------------------------------------------------
(* Outcomes of a call *)

Return(v) == [exc |-> "none", val |-> v]
Raise(e, v) == [exc |-> e, val |-> v]

Range(s) == {s[i] : i \in DOMAIN s}

-----------------------------------------------------------------------------
(* The networkx Graph, as far as edges.py uses it *)

\* a graph of the given nodes, every node carrying the key attribute, no edge
GraphOfNodes(attr) ==
    [nodes |-> [i \in 1 .. NumNodes |-> i - 1],
     data  |-> [n \in Nodes |-> [a \in {Key} |-> attr[n]]],
     adj   |-> [n \in Nodes |-> << >>]]

HasNode(g, n) == n \in Range(g.nodes)

\* Graph.add_edge creates a missing endpoint with an empty data dictionary
AddNodeIfMissing(g, n) ==
    IF HasNode(g, n) THEN g
    ELSE [nodes |-> Append(g.nodes, n),
          data  |-> (n :> << >>) @@ g.data,
          adj   |-> (n :> << >>) @@ g.adj]

AddNbr(nbrs, n) == IF n \in Range(nbrs) THEN nbrs ELSE Append(nbrs, n)

DelNbr(nbrs, n) == SelectSeq(nbrs, LAMBDA m : m # n)

\* Graph.add_edge(u, v): never raises for integer nodes
GraphAddEdge(g, u, v) ==
    LET g2 == AddNodeIfMissing(AddNodeIfMissing(g, u), v)
        a1 == [g2.adj EXCEPT ![u] = AddNbr(@, v)]
        a2 == [a1 EXCEPT ![v] = AddNbr(@, u)]
    IN  [g2 EXCEPT !.adj = a2]

HasEdge(g, u, v) == HasNode(g, u) /\ v \in Range(g.adj[u])

\* Graph.remove_edge(u, v): raises NetworkXError when the edge is not there
GraphRemoveEdge(g, u, v) ==
    IF ~HasEdge(g, u, v) THEN Raise("NetworkXError", g)
    ELSE LET a1 == [g.adj EXCEPT ![u] = DelNbr(@, v)]
             a2 == IF u # v THEN [a1 EXCEPT ![v] = DelNbr(@, u)] ELSE a1
         IN  Return([g EXCEPT !.adj = a2])

\* list(graph.edges): nodes in insertion order, each with its neighbours in
\* insertion order, an edge reported from the endpoint met first
RECURSIVE EdgesFrom(_, _)
EdgesFrom(g, i) ==
    IF i > Len(g.nodes) THEN << >>
    ELSE LET n    == g.nodes[i]
             seen == {g.nodes[k] : k \in 1 .. (i - 1)}
             nbrs == SelectSeq(g.adj[n], LAMBDA m : m \notin seen)
         IN  [j \in 1 .. Len(nbrs) |-> <<n, nbrs[j]>>] \o EdgesFrom(g, i + 1)

GraphEdges(g) == EdgesFrom(g, 1)

\* the edge set: unordered pairs of nodes
EdgeSet(g) == {{e[1], e[2]} : e \in Range(GraphEdges(g))}

-----------------------------------------------------------------------------
(* find_node_by_key *)

RECURSIVE FindFrom(_, _, _)
FindFrom(keyval, g, i) ==
    IF i > Len(g.nodes) THEN Return(NotFound)
    ELSE LET node == g.nodes[i]
         IN  IF Key \notin DOMAIN g.data[node] THEN Raise("KeyError", NotFound)
             ELSE IF g.data[node][Key] = keyval THEN Return(node)
             ELSE FindFrom(keyval, g, i + 1)

find_node_by_key(keyval, g) == FindFrom(keyval, g, 1)

-----------------------------------------------------------------------------
(* remove_edge_by_feature, add_edge_by_feature *)

NotCalled == [exc |-> "not called", val |-> NotFound]

\* both lookups, the second one only when the first one returned
Lookups(g, u_key, v_key) ==
    LET fu == find_node_by_key(u_key, g)
    IN  [u |-> fu,
         v |-> IF fu.exc = "none" THEN find_node_by_key(v_key, g) ELSE NotCalled]

LookupExc(lk) == IF lk.u.exc # "none" THEN lk.u.exc ELSE lk.v.exc

\* a slip: both lookups made with u_key
remove_edge_by_feature_SameKey(g, u_key, v_key) ==
    LET lk == Lookups(g, u_key, u_key)
    IN  IF LookupExc(lk) # "none" THEN Raise(LookupExc(lk), g)
        ELSE GraphRemoveEdge(g, lk.u.val, lk.v.val)

remove_edge_by_feature(g, u_key, v_key) ==
    LET lk == Lookups(g, u_key, v_key)
    IN  IF LookupExc(lk) # "none" THEN Raise(LookupExc(lk), g)
        ELSE GraphRemoveEdge(g, lk.u.val, lk.v.val)

add_edge_by_feature(g, u_key, v_key) ==
    LET lk == Lookups(g, u_key, v_key)
    IN  IF LookupExc(lk) # "none" THEN Raise(LookupExc(lk), g)
        ELSE Return(GraphAddEdge(g, lk.u.val, lk.v.val))

-----------------------------------------------------------------------------
(* Geometries (shapely), in half units so that centroids stay integral *)

Empty == [shape |-> "Empty", pts |-> << >>]

\* the unit square whose lower left corner is (x, 0)
Square(x) ==
    [shape |-> "Polygon",
     pts |-> << <<2 * x, 0>>, <<2 * x + 2, 0>>, <<2 * x + 2, 2>>, <<2 * x, 2>> >>]

RECURSIVE SumCoord(_, _, _)
SumCoord(pts, c, i) == IF i > Len(pts) THEN 0 ELSE pts[i][c] + SumCoord(pts, c, i + 1)

\* poly.centroid of a rectangle: the mean of its corners
Centroid(poly) ==
    <<SumCoord(poly.pts, 1, 1) \div Len(poly.pts),
      SumCoord(poly.pts, 2, 1) \div Len(poly.pts)>>

\* LineString([p1, p2])
LineString(p1, p2) == [shape |-> "LineString", pts |-> <<p1, p2>>]

MinOf(S) == CHOOSE x \in S : \A y \in S : x <= y
MaxOf(S) == CHOOSE x \in S : \A y \in S : x >= y

\* p1.intersection(p2) of two unit squares of the row y in [0, 1]: the common
\* square, the common side, or nothing
Intersection(p1, p2) ==
    LET xs(p) == {p.pts[i][1] : i \in DOMAIN p.pts}
        lo == MaxOf({MinOf(xs(p1)), MinOf(xs(p2))})
        hi == MinOf({MaxOf(xs(p1)), MaxOf(xs(p2))})
    IN  IF lo > hi THEN Empty
        ELSE IF lo = hi THEN LineString(<<lo, 0>>, <<lo, 2>>)
        ELSE [shape |-> "Polygon",
              pts |-> << <<lo, 0>>, <<hi, 0>>, <<hi, 2>>, <<lo, 2>> >>]

-----------------------------------------------------------------------------
(* edges_geoms, edges_to_gdf and their _endpoints variants *)

\* the dictionary the loop over shp.iterrows() builds: a later row of the same
\* key overwrites an earlier one
RowDict(rows, col) ==
    [k \in {rows[i][Key] : i \in DOMAIN rows} |->
        rows[MaxOf({i \in DOMAIN rows : rows[i][Key] = k})][col]]

\* a slip: the two endpoints of every edge taken in the other order
EdgeKeys_Swapped(g) ==
    LET edges == GraphEdges(g)
    IN  IF \E i \in DOMAIN edges : \E c \in 1 .. 2 : Key \notin DOMAIN g.data[edges[i][c]]
        THEN Raise("KeyError", << >>)
        ELSE Return([i \in DOMAIN edges |->
                        <<g.data[edges[i][2]][Key], g.data[edges[i][1]][Key]>>])

\* keys = [(n1[key], n2[key]) for n1, n2 in nodes]
EdgeKeys(g) ==
    LET edges == GraphEdges(g)
    IN  IF \E i \in DOMAIN edges : \E c \in 1 .. 2 : Key \notin DOMAIN g.data[edges[i][c]]
        THEN Raise("KeyError", << >>)
        ELSE Return([i \in DOMAIN edges |->
                        <<g.data[edges[i][1]][Key], g.data[edges[i][2]][Key]>>])

\* a slip: pairs with a key the dictionary lacks are skipped
LookupPairs_Skipping(d, keys) ==
    LET found == SelectSeq(keys, LAMBDA k : k[1] \in DOMAIN d /\ k[2] \in DOMAIN d)
    IN  Return([i \in DOMAIN found |-> <<d[found[i][1]], d[found[i][2]]>>])

\* [(d[k1], d[k2]) for k1, k2 in keys]
LookupPairs(d, keys) ==
    IF \E i \in DOMAIN keys : \E c \in 1 .. 2 : keys[i][c] \notin DOMAIN d
    THEN Raise("KeyError", << >>)
    ELSE Return([i \in DOMAIN keys |-> <<d[keys[i][1]], d[keys[i][2]]>>])

edges_geoms(g, s) ==
    LET keys == EdgeKeys(g)
    IN  IF keys.exc # "none" THEN keys
        ELSE LookupPairs(RowDict(s.rows, "geometry"), keys.val)

edges_geoms_endpoints(g, s, endpoints) ==
    LET keys  == EdgeKeys(g)
        geoms == LookupPairs(RowDict(s.rows, "geometry"), keys.val)
        ends  == LookupPairs(RowDict(s.rows, endpoints), keys.val)
    IN  IF keys.exc # "none" THEN keys
        ELSE IF geoms.exc # "none" THEN geoms
        ELSE Return([geoms |-> geoms.val, endpoints |-> ends.val])

NoTable == [crs |-> "none", columns |-> << >>, rows |-> << >>]
NoShp == [crs |-> "none", rows |-> << >>]

\* LineString([poly1.centroid, poly2.centroid])
CentreLine(pair) == LineString(Centroid(pair[1]), Centroid(pair[2]))

edges_to_gdf(g, s) ==
    LET geoms == edges_geoms(g, s)
    IN  IF geoms.exc # "none" THEN Raise(geoms.exc, NoTable)
        ELSE Return([crs |-> s.crs, columns |-> <<"geometry">>,
                     rows |-> [i \in DOMAIN geoms.val |->
                                  [geometry |-> CentreLine(geoms.val[i])]]])

\* ends_u, ends_v = zip(*endpoints) has nothing to unpack when there is no edge
edges_to_gdf_endpoints(g, s, endpoints) ==
    LET r == edges_geoms_endpoints(g, s, endpoints)
    IN  IF r.exc # "none" THEN Raise(r.exc, NoTable)
        ELSE IF Len(r.val.endpoints) = 0 THEN Raise("ValueError", NoTable)
        ELSE Return([crs |-> s.crs,
                     columns |-> <<"endpoint_u", "endpoint_v", "geometry">>,
                     rows |-> [i \in DOMAIN r.val.geoms |->
                                  [endpoint_u |-> r.val.endpoints[i][1],
                                   endpoint_v |-> r.val.endpoints[i][2],
                                   geometry |-> CentreLine(r.val.geoms[i])]]])

-----------------------------------------------------------------------------
(* shared_boundaries_gdf *)

\* nodes = [(find_node_by_key(u, ...), find_node_by_key(v, ...)) for u, v in es]
EndpointNodes(g, t) ==
    LET f(i, c) == find_node_by_key(t.rows[i][c], g)
    IN  IF \E i \in DOMAIN t.rows : \E c \in {"endpoint_u", "endpoint_v"} :
               f(i, c).exc # "none"
        THEN Raise("KeyError", << >>)
        ELSE Return([i \in DOMAIN t.rows |->
                        <<f(i, "endpoint_u").val, f(i, "endpoint_v").val>>])

\* keys = [(graph.nodes[n1][key], graph.nodes[n2][key]) for n1, n2 in nodes]
NodeKeys(g, nodes) ==
    IF \E i \in DOMAIN nodes : \E c \in 1 .. 2 :
           \/ ~HasNode(g, nodes[i][c])
           \/ Key \notin DOMAIN g.data[nodes[i][c]]
    THEN Raise("KeyError", << >>)
    ELSE Return([i \in DOMAIN nodes |->
                    <<g.data[nodes[i][1]][Key], g.data[nodes[i][2]][Key]>>])

\* a slip: p1.intersection(p1)
BoundaryRows_SameGeom(geoms, t) ==
    [i \in DOMAIN geoms |->
        [geometry |-> Intersection(geoms[i][1], geoms[i][1]),
         endpoint_u |-> t.rows[i].endpoint_u,
         endpoint_v |-> t.rows[i].endpoint_v]]

\* one row per pair of geometries: their intersection, and the endpoint columns
\* of g_shp copied row by row
BoundaryRows(geoms, t) ==
    [i \in DOMAIN geoms |->
        [geometry |-> Intersection(geoms[i][1], geoms[i][2]),
         endpoint_u |-> t.rows[i].endpoint_u,
         endpoint_v |-> t.rows[i].endpoint_v]]

shared_boundaries_gdf(g, t, s) ==
    LET nodes == EndpointNodes(g, t)
        keys  == NodeKeys(g, nodes.val)
        geoms == LookupPairs(RowDict(s.rows, "geometry"), keys.val)
    IN  IF ~({"endpoint_u", "endpoint_v"} \subseteq Range(t.columns))
        THEN Raise("KeyError", NoTable)
        ELSE IF nodes.exc # "none" THEN Raise(nodes.exc, NoTable)
        ELSE IF keys.exc # "none" THEN Raise(keys.exc, NoTable)
        ELSE IF geoms.exc # "none" THEN Raise(geoms.exc, NoTable)
        ELSE Return([crs |-> s.crs,
                     columns |-> <<"geometry", "endpoint_u", "endpoint_v">>,
                     rows |-> BoundaryRows(geoms.val, t)])

-----------------------------------------------------------------------------
(* mark_edges, mark_edges_dict *)

\* if col not in list(g_shp): g_shp[col] = 0
WithColumn(t, col) ==
    IF col \in Range(t.columns) THEN t
    ELSE [t EXCEPT !.columns = Append(@, col),
                   !.rows = [i \in DOMAIN t.rows |-> (col :> 0) @@ t.rows[i]]]

\* g_shp.loc[mask, col] = val, the mask given as the set of its rows
SetWhere(t, mask, col, val) ==
    [t EXCEPT !.rows = [i \in DOMAIN t.rows |->
                           IF i \in mask THEN [t.rows[i] EXCEPT ![col] = val]
                           ELSE t.rows[i]]]

\* the two assignments of one turn of the loop: "try u,v", then "try v,u"
MarkPair(t, u, v, col, val) ==
    LET t1 == SetWhere(t, {i \in DOMAIN t.rows :
                              t.rows[i].endpoint_u = u /\ t.rows[i].endpoint_v = v},
                       col, val)
    IN  SetWhere(t1, {i \in DOMAIN t1.rows :
                         t1.rows[i].endpoint_v = u /\ t1.rows[i].endpoint_u = u},
                 col, val)

\* the loop, over items <<<<u, v>>, val>> in the order the caller gave them
RECURSIVE MarkItems(_, _, _, _)
MarkItems(t, items, col, i) ==
    IF i > Len(items) THEN t
    ELSE MarkItems(MarkPair(t, items[i][1][1], items[i][1][2], col, items[i][2]),
                   items, col, i + 1)

\* the column is made before the loop starts; the loop's first turn raises when
\* the table has no endpoint columns
MarkTable(t, items, col) ==
    LET t0 == WithColumn(t, col)
    IN  IF Len(items) > 0 /\ ~({"endpoint_u", "endpoint_v"} \subseteq Range(t.columns))
        THEN Raise("KeyError", t0)
        ELSE Return(MarkItems(t0, items, col, 1))

mark_edges(t, marks, col, val) ==
    MarkTable(t, [i \in DOMAIN marks |-> <<marks[i], val>>], col)

mark_edges_dict(t, marks, col) == MarkTable(t, marks, col)

-----------------------------------------------------------------------------
(* The graph editing session *)

NoCall == [op |-> "none"]

\* what a later call needs to know of the call before it
Summary(l) ==
    IF l.op \in {"add_edge_by_feature", "remove_edge_by_feature"}
    THEN [op |-> l.op, u_key |-> l.u_key, v_key |-> l.v_key, exc |-> l.exc,
          u |-> l.u, v |-> l.v, before |-> l.before]
    ELSE [op |-> l.op]

InitEdit ==
    /\ \E attr \in KeyAssignments : graph = GraphOfNodes(attr)
    /\ shp = NoShp
    /\ g_shp = NoTable
    /\ last = NoCall

FindNodeByKey(keyval) ==
    /\ last' = [op |-> "find_node_by_key", keyval |-> keyval,
                ret |-> find_node_by_key(keyval, graph)]
    /\ UNCHANGED <<graph, shp, g_shp>>

EditCall(op, r, u_key, v_key) ==
    /\ graph' = r.val
    /\ last' = [op |-> op, u_key |-> u_key, v_key |-> v_key, exc |-> r.exc,
                u |-> Lookups(graph, u_key, v_key).u,
                v |-> Lookups(graph, u_key, v_key).v,
                before |-> EdgeSet(graph), prior |-> Summary(last)]
    /\ UNCHANGED <<shp, g_shp>>

AddEdgeByFeature(u_key, v_key) ==
    /\ Len(GraphEdges(graph)) < MaxEdges
    /\ EditCall("add_edge_by_feature", add_edge_by_feature(graph, u_key, v_key),
                u_key, v_key)

RemoveEdgeByFeature(u_key, v_key) ==
    EditCall("remove_edge_by_feature", remove_edge_by_feature(graph, u_key, v_key),
             u_key, v_key)

NextEdit ==
    \/ \E k \in Keys : FindNodeByKey(k)
    \/ \E uk, vk \in Keys : AddEdgeByFeature(uk, vk)
    \/ \E uk, vk \in Keys : RemoveEdgeByFeature(uk, vk)

Spec == InitEdit /\ [][NextEdit]_vars

-----------------------------------------------------------------------------
(* The inputs of the table-building and of the marking session *)

SeqsUpTo(S, n) == UNION {[1 .. m -> S] : m \in 0 .. n}

RECURSIVE AddEdges(_, _, _)
AddEdges(g, es, i) ==
    IF i > Len(es) THEN g
    ELSE AddEdges(GraphAddEdge(g, es[i][1], es[i][2]), es, i + 1)

\* graphs whose nodes all carry the key, with up to MaxEdges edges (loops too)
InitGraphs ==
    {AddEdges(GraphOfNodes(attr), es, 1) :
        attr \in KeyAssignments, es \in SeqsUpTo(Nodes \X Nodes, MaxEdges)}

\* the NAME column of a feature: a copy of its key, or one name all share
NameOf(mode, k) == IF mode = "own" THEN k ELSE 1

\* feature tables of up to MaxRows unit squares laid side by side; a key may be
\* missing or repeated
InitShps ==
    {[crs |-> Crs,
      rows |-> [j \in DOMAIN ks |->
                   [GEOID10 |-> ks[j], NAME |-> NameOf(mode, ks[j]),
                    geometry |-> Square(j - 1)]]] :
        ks \in SeqsUpTo(Keys, MaxRows), mode \in {"own", "shared"}}

-----------------------------------------------------------------------------
(* The table-building session: one graph, one feature table.  The calls do  *)
(* not change either, so a session is one call, and for a call that made a  *)
(* table, shared_boundaries_gdf on that table.                              *)

InitGeom ==
    /\ graph \in InitGraphs
    /\ shp \in InitShps
    /\ g_shp = NoTable
    /\ last = NoCall

EdgesGeoms ==
    /\ last = NoCall
    /\ last' = [op |-> "edges_geoms", ret |-> edges_geoms(graph, shp)]
    /\ UNCHANGED <<graph, shp, g_shp>>

EdgesGeomsEndpoints(endpoints) ==
    /\ last = NoCall
    /\ last' = [op |-> "edges_geoms_endpoints", endpoints |-> endpoints,
                ret |-> edges_geoms_endpoints(graph, shp, endpoints)]
    /\ UNCHANGED <<graph, shp, g_shp>>

\* the caller keeps the table a call returned as g_shp
Keep(r) == g_shp' = IF r.exc = "none" THEN r.val ELSE g_shp

EdgesToGdf ==
    /\ last = NoCall
    /\ last' = [op |-> "edges_to_gdf", ret |-> edges_to_gdf(graph, shp)]
    /\ Keep(edges_to_gdf(graph, shp))
    /\ UNCHANGED <<graph, shp>>

EdgesToGdfEndpoints(endpoints) ==
    /\ last = NoCall
    /\ last' = [op |-> "edges_to_gdf_endpoints", endpoints |-> endpoints,
                ret |-> edges_to_gdf_endpoints(graph, shp, endpoints)]
    /\ Keep(edges_to_gdf_endpoints(graph, shp, endpoints))
    /\ UNCHANGED <<graph, shp>>

SharedBoundariesGdf ==
    /\ g_shp # NoTable
    /\ last.op \in {"edges_to_gdf", "edges_to_gdf_endpoints"}
    /\ last' = [op |-> "shared_boundaries_gdf",
                ret |-> shared_boundaries_gdf(graph, g_shp, shp)]
    /\ UNCHANGED <<graph, shp, g_shp>>

NextGeom ==
    \/ EdgesGeoms
    \/ \E ep \in EndpointCols : EdgesGeomsEndpoints(ep)
    \/ EdgesToGdf
    \/ \E ep \in EndpointCols : EdgesToGdfEndpoints(ep)
    \/ SharedBoundariesGdf

SpecGeom == InitGeom /\ [][NextGeom]_vars

-----------------------------------------------------------------------------
(* The marking session: an edge table made earlier, marked again and again *)

NoGraph == [nodes |-> << >>, data |-> << >>, adj |-> << >>]

\* the tables edges_to_gdf_endpoints and edges_to_gdf return
MadeTables ==
    {edges_to_gdf_endpoints(g, s, ep).val :
        g \in InitGraphs, s \in InitShps, ep \in EndpointCols}
    \cup {edges_to_gdf(g, s).val : g \in InitGraphs, s \in InitShps}

Labels == Keys
Vals == 1 .. MaxVal
Pairs == Labels \X Labels

\* a dict has every key once
IsDict(items) == \A i, j \in DOMAIN items : items[i][1] = items[j][1] => i = j

InitMark ==
    /\ graph = NoGraph
    /\ shp = NoShp
    /\ g_shp \in MadeTables \ {NoTable}
    /\ last = NoCall

MarkCall(op, r, col, items) ==
    /\ g_shp' = r.val
    /\ last' = [op |-> op, col |-> col, items |-> items, exc |-> r.exc,
                before |-> g_shp]
    /\ UNCHANGED <<graph, shp>>

MarkEdges(marks, col, val) ==
    MarkCall("mark_edges", mark_edges(g_shp, marks, col, val), col,
             [i \in DOMAIN marks |-> <<marks[i], val>>])

MarkEdgesDict(marks, col) ==
    MarkCall("mark_edges_dict", mark_edges_dict(g_shp, marks, col), col, marks)

NextMark ==
    \/ \E marks \in SeqsUpTo(Pairs, MaxMarks), col \in MarkCols, val \in Vals :
           MarkEdges(marks, col, val)
    \/ \E marks \in SeqsUpTo(Pairs \X Vals, MaxMarks), col \in MarkCols :
           IsDict(marks) /\ MarkEdgesDict(marks, col)

SpecMark == InitMark /\ [][NextMark]_vars

-----------------------------------------------------------------------------
(* Claims about the graph editing session *)

Resolved(f) == f.exc = "none" /\ f.val # NotFound

Unmatched(f) == f.exc = "none" /\ f.val = NotFound

HasKeyVal(g, n, keyval) == Key \in DOMAIN g.data[n] /\ g.data[n][Key] = keyval

Holders(g, keyval) == {n \in Range(g.nodes) : HasKeyVal(g, n, keyval)}

\* C3: add_edge_by_feature and remove_edge_by_feature raise whenever the lookup
\* of u_key or of v_key returns the not-found value; they never return normally
\* in that case.
C3_FailsOnUnmatchedKey ==
    (/\ last.op \in {"add_edge_by_feature", "remove_edge_by_feature"}
     /\ (Unmatched(last.u) \/ Unmatched(last.v)))
    => last.exc # "none"

\* what the code does instead: the addition returns, and the graph has gained
\* a node -1 without attributes
C3_AddReturnedOnUnmatchedKey ==
    /\ last.op = "add_edge_by_feature"
    /\ Unmatched(last.u) \/ Unmatched(last.v)
    /\ last.exc = "none"
    /\ HasNode(graph, NotFound)

\* the case C4 is about: a remove_edge_by_feature right after an
\* add_edge_by_feature of the same keys, the keys resolving to two distinct
\* nodes that had no edge between them before the addition
RoundTrip ==
    /\ last.op = "remove_edge_by_feature"
    /\ last.prior.op = "add_edge_by_feature"
    /\ last.prior.u_key = last.u_key
    /\ last.prior.v_key = last.v_key
    /\ Resolved(last.prior.u)
    /\ Resolved(last.prior.v)
    /\ last.prior.u.val # last.prior.v.val
    /\ {last.prior.u.val, last.prior.v.val} \notin last.prior.before

\* C4: adding an edge by feature between two distinct resolved nodes that had no
\* edge, then removing it by the same keys, returns normally both times and
\* leaves the edge set equal to the edge set before the addition.
C4_AddThenRemoveRestoresEdges ==
    RoundTrip =>
        /\ last.prior.exc = "none"
        /\ last.exc = "none"
        /\ EdgeSet(graph) = last.prior.before

\* a round trip on a graph that had another edge, which must survive it
C4_Witness ==
    /\ RoundTrip
    /\ last.prior.before # {}
    /\ last.before # last.prior.before
    /\ EdgeSet(graph) = last.prior.before

\* C7: find_node_by_key returns n when exactly one node n has the key value, and
\* returns the not-found value -1, raising nothing, when no node has it.
C7_FindReturnsNodeOrSentinel ==
    last.op = "find_node_by_key" =>
        LET hs == Holders(graph, last.keyval)
        IN  /\ \A n \in hs : hs = {n} => last.ret = Return(n)
            /\ hs = {} => last.ret = Return(NotFound)


-----------------------------------------------------------------------------
(* Claims about the table-building session *)

HasEndpointCols(t) == {"endpoint_u", "endpoint_v"} \subseteq Range(t.columns)

FeatureKeys == {shp.rows[j][Key] : j \in DOMAIN shp.rows}

NodeKey(n) == graph.data[n][Key]

\* the feature table has a row for the key value of every node
Covered == \A n \in Range(graph.nodes) : NodeKey(n) \in FeatureKeys

\* some endpoint of an edge has a key value that no feature row has
EndpointUncovered ==
    \E e \in Range(GraphEdges(graph)) : \E c \in 1 .. 2 : NodeKey(e[c]) \notin FeatureKeys

\* the centre of the j-th feature's unit square, in half units
CentreOfRow(j) == <<2 * j - 1, 1>>

\* C2: for every graph, a graph with no edges included, and every feature table
\* whose keys cover the key values of all nodes, edges_to_gdf and
\* edges_to_gdf_endpoints each return a table of exactly |edges(G)| rows.
C2_OneRowPerEdge ==
    (last.op \in {"edges_to_gdf", "edges_to_gdf_endpoints"} /\ Covered)
    => /\ last.ret.exc = "none"
       /\ Len(last.ret.val.rows) = Cardinality(EdgeSet(graph))

\* what the code does instead on a graph without edges
C2_EndpointsRaisesWithoutEdges ==
    /\ last.op = "edges_to_gdf_endpoints"
    /\ Covered
    /\ EdgeSet(graph) = {}
    /\ last.ret.exc = "ValueError"

\* C9: edges_geoms, edges_geoms_endpoints, edges_to_gdf and
\* edges_to_gdf_endpoints raise, and hand no table or row to the caller, whenever
\* an endpoint of some edge has a key value that is in no row of the feature
\* table.
C9_RaisesOnUncoveredEndpoint ==
    (/\ last.op \in {"edges_geoms", "edges_geoms_endpoints",
                     "edges_to_gdf", "edges_to_gdf_endpoints"}
     /\ EndpointUncovered)
    => /\ last.ret.exc # "none"
       /\ last.ret.val \in {<< >>, NoTable}
       /\ g_shp = NoTable

\* two edges, one with both features present and one with a feature missing
C9_Witness ==
    /\ last.op = "edges_to_gdf_endpoints"
    /\ EndpointUncovered
    /\ \E e \in Range(GraphEdges(graph)) : \A c \in 1 .. 2 : NodeKey(e[c]) \in FeatureKeys
    /\ last.ret.exc = "KeyError"

\* row i of t is the i-th edge of the graph, endpoints in the graph's order:
\* its line joins the centres of a feature of u's key and of a feature of v's
\* key, and its endpoint columns hold those two features' `endpoints` values
RowIsEdge(t, i, endpoints) ==
    LET e == GraphEdges(graph)[i]
    IN  \E ju, jv \in DOMAIN shp.rows :
            /\ shp.rows[ju][Key] = NodeKey(e[1])
            /\ shp.rows[jv][Key] = NodeKey(e[2])
            /\ t.rows[i].geometry = LineString(CentreOfRow(ju), CentreOfRow(jv))
            /\ t.rows[i].endpoint_u = shp.rows[ju][endpoints]
            /\ t.rows[i].endpoint_v = shp.rows[jv][endpoints]

\* C10: in the table edges_to_gdf_endpoints returns, row i is the i-th edge
\* (u, v) of the graph's edge iteration order, not reordered: a line from the
\* centroid of u's feature to the centroid of v's feature, with endpoint_u and
\* endpoint_v the endpoints-column values of those features.
C10_RowsFollowEdgeOrder ==
    (last.op = "edges_to_gdf_endpoints" /\ last.ret.exc = "none")
    => /\ Len(last.ret.val.rows) = Len(GraphEdges(graph))
       /\ \A i \in DOMAIN last.ret.val.rows :
              RowIsEdge(last.ret.val, i, last.endpoints)

\* a table of two edges between features of different keys and different names
C10_Witness ==
    /\ last.op = "edges_to_gdf_endpoints"
    /\ last.ret.exc = "none"
    /\ Len(last.ret.val.rows) = 2
    /\ \E i \in DOMAIN last.ret.val.rows :
           /\ last.ret.val.rows[i].endpoint_u # last.ret.val.rows[i].endpoint_v
           /\ last.ret.val.rows[i].geometry.pts[1] # last.ret.val.rows[i].geometry.pts[2]

\* the table g_shp was made by edges_to_gdf_endpoints (in this session: from
\* this graph and this feature table)
MadeWithEndpoints == HasEndpointCols(g_shp)

\* the endpoint columns of g_shp hold the key values of the edges' nodes, as
\* they do when `endpoints` named the key column
EndpointsAreKeys ==
    \A i \in DOMAIN g_shp.rows :
        /\ g_shp.rows[i].endpoint_u = NodeKey(GraphEdges(graph)[i][1])
        /\ g_shp.rows[i].endpoint_v = NodeKey(GraphEdges(graph)[i][2])

\* the returned table has one row per row of g_shp, row i with the endpoint
\* values of row i and the intersection of a feature of u's key and a feature of
\* v's key
BoundariesOfEdges ==
    /\ last.ret.exc = "none"
    /\ Len(last.ret.val.rows) = Len(g_shp.rows)
    /\ \A i \in DOMAIN g_shp.rows :
           /\ last.ret.val.rows[i].endpoint_u = g_shp.rows[i].endpoint_u
           /\ last.ret.val.rows[i].endpoint_v = g_shp.rows[i].endpoint_v
           /\ \E ju, jv \in DOMAIN shp.rows :
                  /\ shp.rows[ju][Key] = NodeKey(GraphEdges(graph)[i][1])
                  /\ shp.rows[jv][Key] = NodeKey(GraphEdges(graph)[i][2])
                  /\ last.ret.val.rows[i].geometry =
                         Intersection(shp.rows[ju].geometry, shp.rows[jv].geometry)

\* C8 as stated: given any table edges_to_gdf_endpoints made from the same graph
\* and feature table, shared_boundaries_gdf returns one row per edge row, with
\* the intersection of the edge's two features and the same endpoint values.
C8_AnyEndpointsTable ==
    (last.op = "shared_boundaries_gdf" /\ MadeWithEndpoints) => BoundariesOfEdges

\* C8 as amended: the same, for a table whose endpoint columns hold the key
\* values of the edges' nodes (edges_to_gdf_endpoints called with `endpoints`
\* naming the key column, or a column equal to it).
C8_BoundariesForKeyEndpoints ==
    (last.op = "shared_boundaries_gdf" /\ MadeWithEndpoints /\ EndpointsAreKeys)
    => BoundariesOfEdges

\* two rows, one of them an edge between two different features
C8_Witness ==
    /\ last.op = "shared_boundaries_gdf"
    /\ MadeWithEndpoints
    /\ EndpointsAreKeys
    /\ Len(g_shp.rows) = 2
    /\ \E i \in DOMAIN last.ret.val.rows :
           last.ret.val.rows[i].geometry.shape = "LineString"

-----------------------------------------------------------------------------
(* Claims about the marking session *)

MarkOps == {"mark_edges", "mark_edges_dict"}

\* the row's endpoints are the pair, in either order
RowOfPair(r, p) ==
    \/ r.endpoint_u = p[1] /\ r.endpoint_v = p[2]
    \/ r.endpoint_u = p[2] /\ r.endpoint_v = p[1]

SamePair(p, q) == p = q \/ p = <<q[2], q[1]>>

\* no other item of the call gives the same unordered pair another value
Unrivalled(items, k) ==
    \A j \in DOMAIN items : SamePair(items[j][1], items[k][1]) => items[j][2] = items[k][2]

\* a marking call on a table with endpoint columns has returned
Marked == last.op \in MarkOps /\ last.exc = "none" /\ HasEndpointCols(last.before)

\* C1: marking matches pairs in either order: after a call, every row whose
\* endpoints are (u, v) or (v, u) for a pair (u, v) of marks holds the pair's
\* value in col, and marking (u, v) gives the same table as marking (v, u).
C1_MarksEitherOrder ==
    /\ Marked =>
           \A k \in DOMAIN last.items : Unrivalled(last.items, k) =>
               \A i \in DOMAIN g_shp.rows :
                   RowOfPair(g_shp.rows[i], last.items[k][1])
                   => g_shp.rows[i][last.col] = last.items[k][2]
    /\ Marked =>
           \A k \in DOMAIN last.items :
               LET p == last.items[k][1]
                   val == last.items[k][2]
               IN  mark_edges(last.before, <<p>>, last.col, val)
                       = mark_edges(last.before, << <<p[2], p[1]>> >>, last.col, val)

\* what the code does instead: a row of the reversed pair is left as it was
C1_ReversedRowNotMarked ==
    /\ last.op = "mark_edges"
    /\ last.exc = "none"
    /\ \E k \in DOMAIN last.items : \E i \in DOMAIN g_shp.rows :
           /\ g_shp.rows[i].endpoint_u = last.items[k][1][2]
           /\ g_shp.rows[i].endpoint_v = last.items[k][1][1]
           /\ g_shp.rows[i][last.col] # last.items[k][2]

\* the value of col in row i before the call: 0 for a column the call made
ValueBefore(i) ==
    IF last.col \in Range(last.before.columns) THEN last.before.rows[i][last.col] ELSE 0

\* C5: marking leaves unmatched rows alone: the table keeps its rows and their
\* endpoint columns, and every row that is none of the given pairs in either
\* order keeps its value in col (0 if the call made the column); marking a pair
\* that is in no row changes no row.
C5_UnmatchedRowsKept ==
    Marked =>
        /\ Len(g_shp.rows) = Len(last.before.rows)
        /\ \A i \in DOMAIN g_shp.rows :
               /\ g_shp.rows[i].endpoint_u = last.before.rows[i].endpoint_u
               /\ g_shp.rows[i].endpoint_v = last.before.rows[i].endpoint_v
               /\ (\A k \in DOMAIN last.items : ~RowOfPair(g_shp.rows[i], last.items[k][1]))
                  => g_shp.rows[i][last.col] = ValueBefore(i)

\* C6: last write wins: when a mark_edges call marks a pair that the mark_edges
\* call before it marked in the same column with another value, every row of
\* that pair holds the later call's value afterwards.
C6_LastWriteWins ==
    [][(/\ last.op = "mark_edges" /\ last.exc = "none"
        /\ last'.op = "mark_edges" /\ last'.exc = "none"
        /\ HasEndpointCols(g_shp)
        /\ last'.col = last.col)
       => \A k \in DOMAIN last.items : \A m \in DOMAIN last'.items :
              (/\ SamePair(last.items[k][1], last'.items[m][1])
               /\ last.items[k][2] # last'.items[m][2])
              => \A i \in DOMAIN g_shp'.rows :
                     RowOfPair(g_shp'.rows[i], last'.items[m][1])
                     => g_shp'.rows[i][last'.col] = last'.items[m][2]]_vars

====
